---- MODULE Spec2Model ----
(***************************************************************************)
(* Model of path-clean (src/src/lib.rs): the lexical path cleaner          *)
(* clean / clean_internal and the PathBuf adapter.  Bytes are integers,    *)
(* buffers are sequences, and the indices r, w and dotdot keep the 0-based *)
(* values they have in the code (At(s, i) reads s[i]).                     *)
(***************************************************************************)
EXTENDS Integers, Sequences, FiniteSets, TLC

\* ---------------------------------------------------------------- bounds
MaxLen == 8       \* longest &str handed to clean
MaxOsLen == 4     \* longest OsStr held by a PathBuf handed to the adapter

\* ----------------------------------------------------------------- bytes
DOT == 46
SEP == 47
Ordinary == {97}          \* a byte the code never inspects ('a')
Invalid == {255}          \* a byte that can occur in no UTF-8 text

Alphabet == {SEP, DOT} \cup Ordinary
OsAlphabet == Alphabet \cup Invalid

SeqsUpTo(S, k) == UNION {[1..m -> S] : m \in 0..k}
Paths == SeqsUpTo(Alphabet, MaxLen)
OsPaths == SeqsUpTo(OsAlphabet, MaxOsLen)

\* ------------------------------------------------------- slices and Vec
At(s, i) == s[i + 1]
InBounds(s, i) == i >= 0 /\ i < Len(s)
Truncate(o, len) == IF len > Len(o) THEN o ELSE SubSeq(o, 1, len)

\* ------------------------------------------------------ PathBuf adapter
\* OsStr::to_str: Some(text) when the bytes are valid UTF-8, None otherwise
ToStrLossy(pb) == [some |-> TRUE, val |-> SelectSeq(pb, LAMBDA b : b \notin Invalid)]
ToStr(pb) ==
    IF \A i \in 1..Len(pb) : pb[i] \notin Invalid
    THEN [some |-> TRUE, val |-> pb]
    ELSE [some |-> FALSE, val |-> <<>>]

UnwrapOr(opt, default) == IF opt.some THEN opt.val ELSE default

\* PathBuf::from(String): the OsString holding the String's bytes
PathBufFrom(s) == [i \in 1..Len(s) |-> s[i]]

\* String::from_utf8_unchecked(out): the String holding out's bytes
FromUtf8Unchecked(o) == [i \in 1..Len(o) |-> o[i]]

\* -------------------------------------------------- clean_internal parts
\* lines 89-111: which branch of the loop body the byte at r selects.
\* "panic" is an index out of bounds.
ClassifyNoEnd(p, r) ==
    LET n == Len(p) IN
    IF ~InBounds(p, r) THEN "panic"
    ELSE IF At(p, r) = SEP THEN "skip"
    ELSE IF At(p, r) # DOT THEN "real"
    ELSE IF ~InBounds(p, r + 1) THEN "panic"
    ELSE IF At(p, r + 1) = SEP THEN "skip"
    ELSE IF At(p, r + 1) # DOT THEN "real"
    ELSE IF r + 2 = n THEN "dotdot"
    ELSE IF ~InBounds(p, r + 2) THEN "panic"
    ELSE IF At(p, r + 2) = SEP THEN "dotdot"
    ELSE "real"
ClassifyDotIsReal(p, r) ==
    LET n == Len(p) IN
    IF ~InBounds(p, r) THEN "panic"
    ELSE IF At(p, r) = SEP THEN "skip"
    ELSE IF At(p, r) # DOT THEN "real"
    ELSE IF r + 1 = n THEN "real"
    ELSE IF At(p, r + 1) # DOT THEN "real"
    ELSE IF r + 2 = n THEN "dotdot"
    ELSE IF At(p, r + 2) = SEP THEN "dotdot"
    ELSE "real"
Classify(p, r) ==
    LET n == Len(p) IN
    IF ~InBounds(p, r) THEN "panic"
    ELSE IF At(p, r) = SEP THEN "skip"
    ELSE IF At(p, r) # DOT THEN "real"
    ELSE IF r + 1 = n THEN "skip"
    ELSE IF ~InBounds(p, r + 1) THEN "panic"
    ELSE IF At(p, r + 1) = SEP THEN "skip"
    ELSE IF At(p, r + 1) # DOT THEN "real"
    ELSE IF r + 2 = n THEN "dotdot"
    ELSE IF ~InBounds(p, r + 2) THEN "panic"
    ELSE IF At(p, r + 2) = SEP THEN "dotdot"
    ELSE "real"

\* line 95: out.len() > dotdot
CanBacktrackInverted(o, dd) == Len(o) < dd
CanBacktrack(o, dd) == Len(o) > dd

\* line 98: w > dotdot && out[w] != SEP
BackCondNoFloor(o, ww, dd) == ww > 0 /\ At(o, ww) # SEP
BackCond(o, ww, dd) == ww > dd /\ At(o, ww) # SEP

\* lines 104-108: append a separator unless the buffer is empty, then ".."
PushDotDotAlwaysSep(o) == o \o <<SEP, DOT, DOT>>
PushDotDot(o) == (IF o # <<>> THEN Append(o, SEP) ELSE o) \o <<DOT, DOT>>

\* line 114: rooted && out.len() != 1 || !rooted && !out.is_empty()
NeedSlashNonEmpty(isRooted, o) == o # <<>>
NeedSlash(isRooted, o) == (isRooted /\ Len(o) # 1) \/ (~isRooted /\ o # <<>>)

\* line 117: r < n && path[r] != SEP
CopyCond(p, rr) == rr < Len(p) /\ At(p, rr) # SEP

\* lines 82-86: the buffer a rooted / non-rooted path starts with
RootOutEmpty(isRooted) == <<>>
RootOut(isRooted) == IF isRooted THEN <<SEP>> ELSE <<>>

\* lines 125-127: turn the empty string into "."
DotIfEmptyNever(o) == o
DotIfEmpty(o) == IF o = <<>> THEN <<DOT>> ELSE o

\* ----------------------------------------------------------------- state
VARIABLES
    entry,      \* which public call is running: "clean" or "PathBuf"
    pathbuf,    \* self of PathBuf::clean (OsStr bytes)
    path,       \* path of clean / clean_internal
    rooted, out, r, dotdot, w,   \* locals of clean_internal
    pc,         \* position in the code
    result,     \* value returned by the running public call
    recleaned   \* the result of clean has been handed to clean again

vars == <<entry, pathbuf, path, rooted, out, r, dotdot, w, pc, result, recleaned>>

n == Len(path)

Init ==
    /\ \/ entry = "clean" /\ path \in Paths /\ pathbuf = <<>>
       \/ entry = "PathBuf" /\ pathbuf \in OsPaths /\ path = <<>>
    /\ pc = IF entry = "clean" THEN "enter" ELSE "call"
    /\ rooted = FALSE /\ out = <<>> /\ r = 0 /\ dotdot = 0 /\ w = 0
    /\ result = <<>>
    /\ recleaned = FALSE

\* line 39: self.to_str().unwrap_or("") is handed to clean
PathBufClean ==
    /\ pc = "call"
    /\ path' = UnwrapOr(ToStr(pathbuf), <<>>)
    /\ pc' = "enter"
    /\ UNCHANGED <<entry, pathbuf, rooted, out, r, dotdot, w, result, recleaned>>

\* lines 63-86: empty input returns "."; otherwise the locals are set up
Enter ==
    /\ pc = "enter"
    /\ IF path = <<>>
       THEN /\ out' = <<DOT>>
            /\ pc' = "done"
            /\ UNCHANGED <<rooted, r, dotdot>>
       ELSE /\ rooted' = (At(path, 0) = SEP)
            /\ out' = RootOut(rooted')
            /\ r' = IF rooted' THEN 1 ELSE 0
            /\ dotdot' = IF rooted' THEN 1 ELSE 0
            /\ pc' = "scan"
    /\ UNCHANGED <<entry, pathbuf, path, w, result, recleaned>>

\* lines 89-91: empty element or "." element (an index out of bounds while
\* the conditions of lines 89 and 92 are evaluated panics)
Skip ==
    /\ pc = "scan" /\ r < n
    /\ Classify(path, r) \in {"skip", "panic"}
    /\ IF Classify(path, r) = "panic"
       THEN pc' = "panic" /\ UNCHANGED r
       ELSE r' = r + 1 /\ UNCHANGED pc
    /\ UNCHANGED <<entry, pathbuf, path, rooted, out, dotdot, w, result, recleaned>>

\* lines 92-97 and 102-110: ".." element
DotDot ==
    /\ pc = "scan" /\ r < n
    /\ Classify(path, r) = "dotdot"
    /\ r' = r + 2
    /\ IF CanBacktrack(out, dotdot)
       THEN IF Len(out) = 0
            THEN pc' = "panic" /\ UNCHANGED <<out, dotdot, w>>
            ELSE w' = Len(out) - 1 /\ pc' = "back" /\ UNCHANGED <<out, dotdot>>
       ELSE IF ~rooted
            THEN /\ out' = PushDotDot(out)
                 /\ dotdot' = Len(out')
                 /\ UNCHANGED <<w, pc>>
            ELSE UNCHANGED <<out, dotdot, w, pc>>
    /\ UNCHANGED <<entry, pathbuf, path, rooted, result, recleaned>>

\* lines 98-100: one turn of the backward scan
BackStep ==
    /\ pc = "back"
    /\ IF ~InBounds(out, w)
       THEN pc' = "panic" /\ UNCHANGED w
       ELSE /\ BackCond(out, w, dotdot)
            /\ IF w = 0
               THEN pc' = "panic" /\ UNCHANGED w
               ELSE w' = w - 1 /\ UNCHANGED pc
    /\ UNCHANGED <<entry, pathbuf, path, rooted, out, r, dotdot, result, recleaned>>

\* line 101: the backward scan has stopped
BackTruncate ==
    /\ pc = "back"
    /\ InBounds(out, w)
    /\ ~BackCond(out, w, dotdot)
    /\ out' = Truncate(out, w)
    /\ pc' = "scan"
    /\ UNCHANGED <<entry, pathbuf, path, rooted, r, dotdot, w, result, recleaned>>

\* lines 111-116: real element, add slash if needed
Real ==
    /\ pc = "scan" /\ r < n
    /\ Classify(path, r) = "real"
    /\ out' = IF NeedSlash(rooted, out) THEN Append(out, SEP) ELSE out
    /\ pc' = "copy"
    /\ UNCHANGED <<entry, pathbuf, path, rooted, r, dotdot, w, result, recleaned>>

\* lines 117-120: one byte of the element
CopyStep ==
    /\ pc = "copy"
    /\ CopyCond(path, r)
    /\ out' = Append(out, At(path, r))
    /\ r' = r + 1
    /\ UNCHANGED <<entry, pathbuf, path, rooted, dotdot, w, pc, result, recleaned>>

CopyEnd ==
    /\ pc = "copy"
    /\ ~CopyCond(path, r)
    /\ pc' = "scan"
    /\ UNCHANGED <<entry, pathbuf, path, rooted, out, r, dotdot, w, result, recleaned>>

\* lines 88 and 124-128: the loop is left, "" becomes "."
Finish ==
    /\ pc = "scan" /\ ~(r < n)
    /\ out' = DotIfEmpty(out)
    /\ pc' = "done"
    /\ UNCHANGED <<entry, pathbuf, path, rooted, r, dotdot, w, result, recleaned>>

\* lines 52-56: clean wraps the bytes of clean_internal in a String
CleanReturn ==
    /\ pc = "done"
    /\ result' = FromUtf8Unchecked(out)
    /\ pc' = "cleaned"
    /\ UNCHANGED <<entry, pathbuf, path, rooted, out, r, dotdot, w, recleaned>>

\* line 39: PathBuf::from(clean(..))
PathBufReturn ==
    /\ pc = "cleaned" /\ entry = "PathBuf"
    /\ result' = PathBufFrom(result)
    /\ pc' = "returned"
    /\ UNCHANGED <<entry, pathbuf, path, rooted, out, r, dotdot, w, recleaned>>

\* the caller hands the result of clean to clean once more
Reclean ==
    /\ pc = "cleaned" /\ entry = "clean" /\ ~recleaned
    /\ path' = result
    /\ recleaned' = TRUE
    /\ rooted' = FALSE /\ out' = <<>> /\ r' = 0 /\ dotdot' = 0 /\ w' = 0
    /\ pc' = "enter"
    /\ UNCHANGED <<entry, pathbuf, result>>

Next ==
    \/ PathBufClean
    \/ Enter
    \/ Skip
    \/ DotDot
    \/ BackStep
    \/ BackTruncate
    \/ Real
    \/ CopyStep
    \/ CopyEnd
    \/ Finish
    \/ CleanReturn
    \/ PathBufReturn
    \/ Reclean

Spec == Init /\ [][Next]_vars

\* the call runs to completion once started: nothing suspends it
LiveSpec == Spec /\ WF_vars(Next)

\* ------------------------------------------------- vocabulary of the properties
StartsWithSep(s) == s # <<>> /\ s[1] = SEP

\* the segments of s: the maximal runs of non-separator bytes, delimited by
\* separators or the string boundaries
RECURSIVE SegsFrom(_, _, _, _)
SegsFrom(s, i, cur, acc) ==
    IF i > Len(s) THEN Append(acc, cur)
    ELSE IF s[i] = SEP THEN SegsFrom(s, i + 1, <<>>, Append(acc, cur))
    ELSE SegsFrom(s, i + 1, Append(cur, s[i]), acc)
Segments(s) == SegsFrom(s, 1, <<>>, <<>>)

DotSeg == <<DOT>>
DotDotSeg == <<DOT, DOT>>
Root == <<SEP>>

\* the reference segment procedure
KeptSegments(p) == SelectSeq(Segments(p), LAMBDA g : g # <<>> /\ g # DotSeg)

RECURSIVE RefStackFrom(_, _, _, _)
RefStackFrom(segs, i, st, isRooted) ==
    IF i > Len(segs) THEN st
    ELSE LET g == segs[i] IN
         IF g # DotDotSeg THEN RefStackFrom(segs, i + 1, Append(st, g), isRooted)
         ELSE IF st # <<>> /\ st[Len(st)] # DotDotSeg
              THEN RefStackFrom(segs, i + 1, SubSeq(st, 1, Len(st) - 1), isRooted)
         ELSE IF isRooted THEN RefStackFrom(segs, i + 1, st, isRooted)
         ELSE RefStackFrom(segs, i + 1, Append(st, g), isRooted)
RefStack(p) == RefStackFrom(KeptSegments(p), 1, <<>>, StartsWithSep(p))

RECURSIVE Join(_)
Join(st) ==
    IF st = <<>> THEN <<>>
    ELSE IF Len(st) = 1 THEN st[1]
    ELSE st[1] \o <<SEP>> \o Join(Tail(st))

RefClean(p) ==
    LET joined == (IF StartsWithSep(p) THEN <<SEP>> ELSE <<>>) \o Join(RefStack(p))
    IN IF joined = <<>> THEN <<DOT>> ELSE joined

Returned == pc = "cleaned"

\* ------------------------------------------------------------ properties

\* C1: for every input p, clean(p) equals the result of the reference
\* segment procedure: split on '/', drop empty and '.' segments, run the
\* rest over a stack ('..' pops a real top, else is pushed when p is not
\* rooted and dropped when it is), join with '/', prefix '/' when p is
\* rooted, and "." when that is empty.
C1_MatchesReference == Returned => result = RefClean(path)

C1_Witness ==
    /\ Returned
    /\ path = <<97, SEP, DOT, DOT, SEP, DOT, DOT>>
    /\ result = DotDotSeg

\* C2: clean is idempotent: the result of clean, handed to clean again, comes
\* back unchanged; in particular ".", ".." and "/" are returned unchanged.
C2_Idempotent ==
    /\ (Returned /\ recleaned) => result = path
    /\ (Returned /\ path \in {DotSeg, DotDotSeg, Root}) => result = path

C2_Witness ==
    /\ Returned /\ recleaned
    /\ path = <<DOT, DOT, SEP, 97>>
    /\ result = path

\* C3: clean_internal is total: no step indexes path or out out of bounds or
\* subtracts below zero, the scan loop is left with r equal to the input
\* length, and every call that is entered returns.
C3_Safe ==
    /\ pc # "panic"
    /\ r >= 0 /\ r <= n
    /\ pc = "back" => (w >= dotdot /\ w >= 0 /\ w < Len(out))
    /\ pc = "done" => r = n

C3_Total == [](C3_Safe) /\ ((pc = "enter") ~> (pc = "done"))

C3_Witness ==
    /\ pc = "done"
    /\ path = <<97, SEP, 97, SEP, DOT, DOT>>
    /\ r = n
    /\ out = <<97>>

\* C4: clean(p) starts with '/' if and only if p starts with '/'.
C4_RootednessPreserved == Returned => (StartsWithSep(result) <=> StartsWithSep(path))

C4_Witness ==
    /\ Returned
    /\ path = <<SEP, DOT, DOT, SEP, 97>>
    /\ result = <<SEP, 97>>

\* C5: every '..' segment of clean(p) belongs to a leading run of '..'
\* segments of a non-rooted result: a rooted result has no '..' segment
\* ("/..", "/../.." and "/../../.." clean to "/"), and in a non-rooted result every
\* segment before a '..' segment is a '..' segment.
C5_DotDotOnlyLeading ==
    Returned =>
        LET segs == Segments(result) IN
        /\ StartsWithSep(result) => \A i \in 1..Len(segs) : segs[i] # DotDotSeg
        /\ ~StartsWithSep(result) =>
               \A i, j \in 1..Len(segs) :
                   (i < j /\ segs[j] = DotDotSeg) => segs[i] = DotDotSeg
        /\ path \in {<<SEP, DOT, DOT>>, <<SEP, DOT, DOT, SEP, DOT, DOT>>,
                     <<SEP, DOT, DOT, SEP, DOT, DOT, SEP, DOT, DOT>>} => result = Root

C5_Witness ==
    /\ Returned
    /\ path = <<DOT, DOT, SEP, 97, SEP, DOT, DOT>>
    /\ result = DotDotSeg

\* C6: clean(p) never contains two consecutive separators and never ends
\* with a separator unless the result is exactly "/".
C6_NoRedundantSeparators ==
    Returned =>
        /\ \A i \in 1..(Len(result) - 1) : ~(result[i] = SEP /\ result[i + 1] = SEP)
        /\ (result # <<>> /\ result[Len(result)] = SEP) => result = Root

C6_Witness ==
    /\ Returned
    /\ path = <<97, SEP, SEP, 97, SEP>>
    /\ result = <<97, SEP, 97>>

\* C7 (as stated): no segment of clean(p) is exactly ".".
C7_NoDotSegment ==
    Returned => \A i \in 1..Len(Segments(result)) : Segments(result)[i] # DotSeg

\* C7 (amended): no segment of clean(p) is exactly "." unless the whole
\* result is the one-byte string ".".
C7_NoDotSegmentUnlessDot ==
    Returned =>
        \/ result = DotSeg
        \/ \A i \in 1..Len(Segments(result)) : Segments(result)[i] # DotSeg

C7_Witness ==
    /\ Returned
    /\ path = <<DOT, SEP, 97, SEP, DOT>>
    /\ result = <<97>>

\* C8: clean(p) is never the empty string: the empty input, and any
\* non-rooted input whose segments are all eliminated, yields exactly ".".
C8_NeverEmpty ==
    Returned =>
        /\ result # <<>>
        /\ path = <<>> => result = DotSeg
        /\ (~StartsWithSep(path) /\ RefStack(path) = <<>>) => result = DotSeg

C8_Witness ==
    /\ Returned
    /\ path = <<97, SEP, DOT, SEP, DOT, DOT>>
    /\ result = DotSeg

\* C9: the PathBuf adapter never fails: a path whose text exists comes back
\* as the path built from clean(text), and a path whose text cannot be
\* decoded comes back as the path ".".
Decodable(pb) == \A i \in 1..Len(pb) : pb[i] \in Alphabet

C9_AdapterNeverFails ==
    entry = "PathBuf" =>
        /\ pc # "panic"
        /\ pc = "returned" =>
               IF Decodable(pathbuf)
               THEN result = RefClean(pathbuf)
               ELSE result = DotSeg

C9_Witness ==
    /\ entry = "PathBuf" /\ pc = "returned"
    /\ pathbuf = <<97, SEP, 255>>
    /\ result = DotSeg

\* C10: the floor dotdot never decreases during a call and never exceeds the
\* length of out, no step changes the bytes of out below the floor, and the
\* truncation of a '..' element cuts out at the last separator above the
\* floor, or at the floor when there is none: what is removed is the last
\* segment, with the separator before it unless that is the root separator.
CutIndex(o, dd) ==
    LET above == {i \in (dd + 1)..(Len(o) - 1) : At(o, i) = SEP}
    IN IF above = {} THEN dd ELSE CHOOSE i \in above : \A j \in above : j <= i

LastSegment(o) == Segments(o)[Len(Segments(o))]

C10_Step ==
    /\ dotdot <= Len(out) /\ dotdot' <= Len(out')
    /\ pc' # "enter" =>
           /\ dotdot' >= dotdot
           /\ Len(out') >= dotdot
           /\ SubSeq(out', 1, dotdot) = SubSeq(out, 1, dotdot)
    /\ (pc = "back" /\ pc' = "scan") =>
           LET removed == SubSeq(out, CutIndex(out, dotdot) + 1, Len(out)) IN
           /\ out' = SubSeq(out, 1, CutIndex(out, dotdot))
           /\ LastSegment(out) # <<>>
           /\ removed \in {LastSegment(out), <<SEP>> \o LastSegment(out)}
           /\ (out' # <<>> /\ out'[Len(out')] = SEP) => (rooted /\ out' = Root)

C10_FloorProtected == [][C10_Step]_vars

C10_Witness ==
    /\ pc = "scan"
    /\ path = <<DOT, DOT, SEP, 97, SEP, DOT, DOT>>
    /\ r = 7 /\ dotdot = 2
    /\ out = DotDotSeg
====
